---- MODULE Spec2Model ----
(***************************************************************************)
(* The settings editor of PowerDNS-Admin                                   *)
(* (powerdnsadmin/static/custom/js/app-settings-editor.js):                *)
(* SettingsEditorModel, its load/save life cycle against the remote        *)
(* endpoint, its validation rules and its tab navigation.                  *)
(*                                                                         *)
(* JavaScript values are pairs <<type, text>> so that true, 1 and "1" stay *)
(* three different values, as they are for === in the source.  A tab path  *)
(* or location fragment is the sequence of its '/'-separated segments      *)
(* ("authentication/local" is <<"authentication", "local">>, "" is <<>>).  *)
(***************************************************************************)
EXTENDS Integers, Sequences, FiniteSets, Bags, TLC

VARIABLES
    started,        \* init() has run (bindings applied, target set)
    fields,         \* the observables self[key] created by update()
    defaults,       \* the closure variable defaults
    settings,       \* self.settings
    loading,        \* self.loading
    saving,         \* self.saving
    saved,          \* self.saved
    save_failed,    \* self.save_failed
    messages,       \* self.messages
    messages_class, \* self.messages_class
    tab_active,     \* self.tab_active
    hash,           \* window.location.hash without its leading '#'
    hashEvents,     \* hashchange events dispatched and not yet handled
    inflight,       \* the $.ajax requests whose response has not arrived (a bag)
    save_ret        \* what the most recent call of save() returned

vars == <<started, fields, defaults, settings, loading, saving, saved,
          save_failed, messages, messages_class, tab_active, hash,
          hashEvents, inflight, save_ret>>

flagVars == <<loading, saving, saved, save_failed>>
navVars == <<tab_active, hash, hashEvents>>

-----------------------------------------------------------------------------
(* Bounds of the model *)

\* requests that may be outstanding at once
MaxInflight == 2
\* hashchange events that may be queued at once
MaxHashEvents == 2

-----------------------------------------------------------------------------
(* JavaScript values *)

B(b) == <<"boolean", IF b THEN "true" ELSE "false">>
N(s) == <<"number", s>>
S(s) == <<"string", s>>
Undefined == <<"undefined", "undefined">>

\* The values of the model that ToBoolean takes to false.
Falsy == {B(FALSE), N("0"), S(""), Undefined}

\* ToBoolean, as used by if (...), && and !
Truthy(v) == v \notin Falsy

\* String(v): what a bound text input shows for v
ToStr(v) == v[2]

EmptyObject == [k \in {} |-> Undefined]

\* $.extend(target, object): copies every own property of object whose value
\* is not undefined into target and returns target
Extend(target, object) ==
    [k \in DOMAIN target \cup {j \in DOMAIN object : object[j] # Undefined} |->
        IF k \in DOMAIN object /\ object[k] # Undefined THEN object[k] ELSE target[k]]

-----------------------------------------------------------------------------
(* The settings record *)

\* The entries of the defaults table that the rules below read.
StaticDefaults ==
    [local_db_enabled |-> B(TRUE),
     ldap_enabled |-> B(FALSE),
     ldap_uri |-> S(""),
     ldap_sg_enabled |-> B(FALSE),
     ldap_admin_group |-> S(""),
     autoprovisioning |-> B(FALSE),
     google_oauth_enabled |-> B(FALSE),
     google_oauth_auto_configure |-> B(TRUE),
     google_token_url |-> S(""),
     github_oauth_enabled |-> B(FALSE),
     azure_oauth_enabled |-> B(FALSE),
     oidc_oauth_enabled |-> B(FALSE)]

FieldNames == DOMAIN StaticDefaults

\* the merge with its arguments swapped: the defaults win over the instance
MergedInstance_DefaultsWin(dflts, instance) == Extend(instance, dflts)

\* The object update() iterates over: $.extend(defaults, instance).  The
\* call writes into defaults and returns it.
MergedInstance(dflts, instance) == Extend(dflts, instance)

\* defaults after update(instance): the first argument of $.extend is the
\* object that is extended
DefaultsAfterUpdate(dflts, instance) == MergedInstance(dflts, instance)

\* The observables after update(instance): every key of the merged object is
\* written, or created when self[key] is no observable yet.
FieldsAfterUpdate(flds, dflts, instance) ==
    LET merged == MergedInstance(dflts, instance)
    IN  [k \in DOMAIN flds \cup DOMAIN merged |->
            IF k \in DOMAIN merged THEN merged[k] ELSE flds[k]]

\* ko.toJSON(self), the part the endpoint reads: JSON.stringify keeps the
\* boolean, number and string values as they are and omits a property whose
\* value is undefined.
ToJSON(flds) ==
    [k \in {j \in DOMAIN flds : flds[j] # Undefined} |-> flds[k]]

-----------------------------------------------------------------------------
(* Validation: the rules handed to target.validate() in setupValidation *)

\* The fields bound to an on/off control rather than to a text input.
ToggleFields ==
    {"local_db_enabled", "ldap_enabled", "ldap_sg_enabled", "autoprovisioning",
     "google_oauth_enabled", "google_oauth_auto_configure",
     "github_oauth_enabled", "azure_oauth_enabled", "oidc_oauth_enabled"}

\* Whether the form control of field k holds a value for the 'required'
\* method: a text input holds the string of its observable, an on/off
\* control always holds one of its two states.
ElementFilled(flds, k) ==
    IF k \in ToggleFields THEN TRUE ELSE ToStr(flds[k]) # ""

\* The strings of the model that the 'url' method accepts.
WellFormedUrls == {"https://idp.example/token"}

\* auth_enabled with the last provider left out of the count
auth_enabled_ForgetsOidc(flds) ==
    \E k \in {"local_db_enabled", "ldap_enabled", "google_oauth_enabled",
              "github_oauth_enabled", "azure_oauth_enabled"} : Truthy(flds[k])

auth_enabled(flds) ==
    LET count(k) == IF Truthy(flds[k]) THEN 1 ELSE 0
        enabled == count("local_db_enabled") + count("ldap_enabled")
                   + count("google_oauth_enabled") + count("github_oauth_enabled")
                   + count("azure_oauth_enabled") + count("oidc_oauth_enabled")
    IN  enabled > 0

ldap_exclusive(flds) ==
    LET enabled == (IF flds["ldap_sg_enabled"] = N("1") THEN 1 ELSE 0)
                   + (IF flds["autoprovisioning"] = N("1") THEN 1 ELSE 0)
    IN  enabled < 2

\* The enablement predicates, each the truthiness of what the closure returns.
ldap_enabled(flds) == Truthy(flds["ldap_enabled"])

ldap_sg_enabled(flds) ==
    flds["ldap_enabled"] = N("1") /\ flds["ldap_sg_enabled"] = N("1")

google_oauth_auto_configure_disabled(flds) ==
    Truthy(flds["google_oauth_enabled"]) /\ ~Truthy(flds["google_oauth_auto_configure"])

\* required: true -- the predicate is not consulted
RequiredFails_Unconditional(flds, k, needed) == ~ElementFilled(flds, k)

\* required: <predicate> -- violated when the predicate holds and the control is empty
RequiredFails(flds, k, needed) == needed /\ ~ElementFilled(flds, k)

\* minlength / maxlength / url -- each passes on an empty control (optional)
LengthFails(flds, k, min, max) ==
    /\ ToStr(flds[k]) # ""
    /\ (Len(ToStr(flds[k])) < min \/ Len(ToStr(flds[k])) > max)

UrlFails(flds, k) == ToStr(flds[k]) # "" /\ ToStr(flds[k]) \notin WellFormedUrls

AuthToggles ==
    {"local_db_enabled", "ldap_enabled", "google_oauth_enabled",
     "github_oauth_enabled", "azure_oauth_enabled", "oidc_oauth_enabled"}

\* Whether the validator marks field k as in error.
FieldInvalid(flds, k) ==
    CASE k \in AuthToggles -> ~auth_enabled(flds)
      [] k = "ldap_uri" ->
            RequiredFails(flds, k, ldap_enabled(flds)) \/ LengthFails(flds, k, 11, 255)
      [] k \in {"ldap_sg_enabled", "autoprovisioning"} ->
            RequiredFails(flds, k, ldap_enabled(flds)) \/ ~ldap_exclusive(flds)
      [] k = "ldap_admin_group" ->
            RequiredFails(flds, k, ldap_sg_enabled(flds)) \/ LengthFails(flds, k, 3, 100)
      [] k = "google_token_url" ->
            \/ RequiredFails(flds, k, google_oauth_auto_configure_disabled(flds))
            \/ LengthFails(flds, k, 1, 255)
            \/ UrlFails(flds, k)
      [] OTHER -> FALSE

\* target.valid()
FormValid(flds) == \A k \in FieldNames : ~FieldInvalid(flds, k)

-----------------------------------------------------------------------------
(* Tab navigation *)

Tab(id, parent, def) == [id |-> id, parent |-> parent, def |-> def]

\* self.tabs; parent <<>> is null, <<p>> is the parent id p
Tabs ==
    << Tab("authentication", <<>>, FALSE), Tab("mail", <<>>, FALSE),
       Tab("powerdns", <<>>, FALSE), Tab("security", <<>>, FALSE),
       Tab("ui", <<>>, FALSE), Tab("zone-editor", <<>>, FALSE),
       Tab("local", <<"authentication">>, TRUE),
       Tab("ldap", <<"authentication">>, FALSE),
       Tab("azure", <<"authentication">>, FALSE),
       Tab("github", <<"authentication">>, FALSE),
       Tab("google", <<"authentication">>, FALSE),
       Tab("oidc", <<"authentication">>, FALSE),
       Tab("saml", <<"authentication">>, FALSE) >>

tab_default == <<"authentication">>

\* The for-loop of activateTab from index i on: tab grows by the id of each
\* item whose parent is (the current) tab and that is marked def.
RECURSIVE AppendDefaultChild(_, _)
AppendDefaultChild(tab, i) ==
    IF i > Len(Tabs) THEN tab
    ELSE AppendDefaultChild(
            IF Tabs[i].parent = tab /\ Tabs[i].parent # <<>> /\ Tabs[i].def
            THEN tab \o <<Tabs[i].id>> ELSE tab,
            i + 1)

\* activateTab without the search for a default child
ResolveTab_NoDefaultChild(tab) == tab

\* activateTab appending the default child to every path under a parent that
\* has one, whether or not the path already names a child
ResolveTab_AppendsAgain(tab) ==
    IF tab # <<>> /\ tab[1] = "authentication" THEN tab \o <<"local">> ELSE tab

\* The path activateTab(tab) activates.
ResolveTab(tab) == IF Len(tab) > 1 THEN tab ELSE AppendDefaultChild(tab, 1)

\* A write of the fragment that queues a hashchange event even when the
\* fragment written is the current one
WriteHash_AlwaysFires(path, queued) ==
    /\ hash' = path
    /\ hashEvents' = queued + 1
    /\ hashEvents' <= MaxHashEvents

\* window.location.hash = path, with `queued` hashchange events waiting: the
\* browser queues one more only when the fragment changes
WriteHash(path, queued) ==
    /\ hash' = path
    /\ hashEvents' = IF path # hash THEN queued + 1 ELSE queued
    /\ hashEvents' <= MaxHashEvents

\* activateTab without its write of the location fragment
ActivateTabWith_KeepsFragment(tab, queued) ==
    /\ tab_active' = ResolveTab(tab)
    /\ hash' = hash
    /\ hashEvents' = queued

\* self.activateTab(tab), called with `queued` hashchange events waiting
ActivateTabWith(tab, queued) ==
    /\ tab_active' = ResolveTab(tab)
    /\ WriteHash(ResolveTab(tab), queued)

\* self.activateTab(tab)
activateTab(tab) == ActivateTabWith(tab, hashEvents)

\* self.activateDefaultTab()
activateDefaultTab == activateTab(tab_default)

getHash == hash

hasHash == hash # <<>>

-----------------------------------------------------------------------------
(* The remote endpoint *)

\* The two call shapes of $.ajax: the request body and its success callback.
LoadRequest == [success |-> "onDataLoaded", commit |-> 0, data |-> EmptyObject]

\* a save request that lacks commit: 1
SaveRequest_NoCommit(json) == [success |-> "onDataSaved", commit |-> 0, data |-> json]

SaveRequest(json) == [success |-> "onDataSaved", commit |-> 1, data |-> json]

\* The statuses of a response and the message list sent with each: 0 reports
\* a failure, anything else a success.
Statuses == {0, 1, 2}

ServerMessages(status) ==
    IF status = 0 THEN <<"Could not process the request.">> ELSE <<"Done.">>

ServerSettings == [pdns |-> S("api")]

\* A partial settings record that holds at least one field.
SomeRecord == [ldap_uri |-> S("ldap://srv.example")]

\* What the endpoint supplies as legacy / data: partial settings records,
\* holding settings fields only.
Payloads == { EmptyObject, SomeRecord }

\* The payloads sent with a status: a failure's is not read, status 1 comes
\* with every payload, the other success status with one.
PayloadsFor(status) == IF status = 1 THEN Payloads ELSE {SomeRecord}

LoadResults ==
    UNION { { [status |-> st, messages |-> ServerMessages(st), legacy |-> legacy,
               settings |-> ServerSettings] : legacy \in PayloadsFor(st) } :
            st \in Statuses }

\* A save response carries a partial record or, with status 1, the record
\* that was submitted.
SaveResults(request) ==
    UNION { { [status |-> st, messages |-> ServerMessages(st), data |-> data] :
                data \in PayloadsFor(st) \cup (IF st = 1 THEN {request.data} ELSE {}) } :
            st \in Statuses }

\* self.observe(value) on a plain object: every leaf is replaced by an
\* observable holding it
observe(value) == [k \in DOMAIN value |-> <<"observable", value[k]>>]

-----------------------------------------------------------------------------
(* The initial state: the model as constructed, before init() *)

InitialHashes == { <<>>, <<"authentication", "ldap">> }

InitAt(hashes) ==
    /\ started = FALSE
    /\ fields = EmptyObject
    /\ defaults = StaticDefaults
    /\ settings = EmptyObject
    /\ loading = FALSE
    /\ saving = FALSE
    /\ saved = FALSE
    /\ save_failed = FALSE
    /\ messages = <<>>
    /\ messages_class = "info"
    /\ tab_active = <<>>
    /\ hash \in hashes
    /\ hashEvents = 0
    /\ inflight = EmptyBag
    /\ save_ret = "none"

\* The page opened without a fragment.
Init == InitAt({<<>>})

-----------------------------------------------------------------------------
(* Operations of SettingsEditorModel *)

\* self.update(instance)
update(instance) ==
    /\ fields' = FieldsAfterUpdate(fields, defaults, instance)
    /\ defaults' = DefaultsAfterUpdate(defaults, instance)

\* $.ajax(...) of self.load, after self.loading(true)
SendLoad ==
    /\ loading' = TRUE
    /\ inflight' = inflight (+) SetToBag({LoadRequest})

\* self.init(autoload), with user_data the constructor's initial values
init(user_data, autoload) ==
    /\ ~started
    /\ started' = TRUE
    /\ update(user_data)
    /\ IF hasHash THEN activateTab(getHash) ELSE activateDefaultTab
    /\ IF autoload THEN SendLoad ELSE UNCHANGED <<loading, inflight>>
    /\ UNCHANGED <<settings, saving, saved, save_failed, messages,
                   messages_class, save_ret>>

\* self.load()
load ==
    /\ started
    /\ BagCardinality(inflight) < MaxInflight
    /\ SendLoad
    /\ UNCHANGED <<started, fields, defaults, settings, saving, saved,
                   save_failed, messages, messages_class, navVars, save_ret>>

\* save() without its validation guard
SaveProceeds_Unguarded(flds) == TRUE

\* Whether save() gets past its validation guard.
SaveProceeds(flds) == FormValid(flds)

\* self.save()
save ==
    /\ started
    /\ IF ~SaveProceeds(fields)
       THEN /\ save_ret' = "false"
            /\ UNCHANGED <<saving, inflight>>
       ELSE /\ BagCardinality(inflight) < MaxInflight
            /\ saving' = TRUE
            /\ inflight' = inflight (+) SetToBag({SaveRequest(ToJSON(fields))})
            /\ save_ret' = "undefined"
    /\ UNCHANGED <<started, fields, defaults, settings, loading, saved,
                   save_failed, messages, messages_class, navVars>>

\* self.onSaveClick(model, event)
onSaveClick == save

\* a switch handler that also puts the save flags back to idle
switchChange_ResetsFlags(k, state) ==
    /\ started
    /\ k \in DOMAIN fields
    /\ fields' = [fields EXCEPT ![k] = B(state)]
    /\ saving' = FALSE /\ saved' = FALSE /\ save_failed' = FALSE
    /\ UNCHANGED <<started, defaults, settings, loading, messages,
                   messages_class, navVars, inflight, save_ret>>

\* The 'setting' binding: switchChange writes the switch state, a boolean,
\* into the bound observable.
switchChange(k, state) ==
    /\ started
    /\ k \in DOMAIN fields
    /\ fields' = [fields EXCEPT ![k] = B(state)]
    /\ UNCHANGED <<started, defaults, settings, flagVars, messages,
                   messages_class, navVars, inflight, save_ret>>

\* A text input bound to an observable writes the typed string into it.
inputChanged(k, text) ==
    /\ started
    /\ k \in DOMAIN fields
    /\ fields' = [fields EXCEPT ![k] = S(text)]
    /\ UNCHANGED <<started, defaults, settings, flagVars, messages,
                   messages_class, navVars, inflight, save_ret>>

\* onDataLoaded that merges the payload before it looks at the status
onDataLoaded_MergesFirst(result) ==
    /\ update(result.legacy)
    /\ settings' = observe(result.settings)
    /\ messages_class' = IF result.status = 0 THEN "danger" ELSE "info"
    /\ messages' = result.messages
    /\ loading' = FALSE
    /\ UNCHANGED <<started, saving, saved, save_failed, navVars, save_ret>>

\* onDataLoaded that discards a response arriving while a save is outstanding
onDataLoaded_DiscardsWhileSaving(result) ==
    /\ IF saving
       THEN /\ loading' = FALSE
            /\ UNCHANGED <<fields, defaults, settings, messages, messages_class>>
       ELSE IF result.status = 0
       THEN /\ messages_class' = "danger"
            /\ messages' = result.messages
            /\ loading' = FALSE
            /\ UNCHANGED <<fields, defaults, settings>>
       ELSE /\ update(result.legacy)
            /\ settings' = observe(result.settings)
            /\ messages_class' = "info"
            /\ messages' = result.messages
            /\ loading' = FALSE
    /\ UNCHANGED <<started, saving, saved, save_failed, navVars, save_ret>>

\* self.onDataLoaded(result)
onDataLoaded(result) ==
    /\ IF result.status = 0
       THEN /\ messages_class' = "danger"
            /\ messages' = result.messages
            /\ loading' = FALSE
            /\ UNCHANGED <<fields, defaults, settings>>
       ELSE /\ update(result.legacy)
            /\ settings' = observe(result.settings)
            /\ messages_class' = "info"
            /\ messages' = result.messages
            /\ loading' = FALSE
    /\ UNCHANGED <<started, saving, saved, save_failed, navVars, save_ret>>

\* onDataSaved that takes only status 1 for a success
onDataSaved_OnlyOneSucceeds(result) ==
    /\ IF result.status # 1
       THEN /\ saved' = FALSE
            /\ save_failed' = TRUE
            /\ messages_class' = "danger"
            /\ messages' = result.messages
            /\ saving' = FALSE
            /\ UNCHANGED <<fields, defaults>>
       ELSE /\ update(result.data)
            /\ saved' = TRUE
            /\ save_failed' = FALSE
            /\ messages_class' = "info"
            /\ messages' = result.messages
            /\ saving' = FALSE
    /\ UNCHANGED <<started, settings, loading, navVars, save_ret>>

\* onDataSaved whose failure branch leaves self.saved as it was
onDataSaved_KeepsSaved(result) ==
    /\ IF result.status = 0
       THEN /\ save_failed' = TRUE
            /\ messages_class' = "danger"
            /\ messages' = result.messages
            /\ saving' = FALSE
            /\ UNCHANGED <<saved, fields, defaults>>
       ELSE /\ update(result.data)
            /\ saved' = TRUE
            /\ save_failed' = FALSE
            /\ messages_class' = "info"
            /\ messages' = result.messages
            /\ saving' = FALSE
    /\ UNCHANGED <<started, settings, loading, navVars, save_ret>>

\* self.onDataSaved(result)
onDataSaved(result) ==
    /\ IF result.status = 0
       THEN /\ saved' = FALSE
            /\ save_failed' = TRUE
            /\ messages_class' = "danger"
            /\ messages' = result.messages
            /\ saving' = FALSE
            /\ UNCHANGED <<fields, defaults>>
       ELSE /\ update(result.data)
            /\ saved' = TRUE
            /\ save_failed' = FALSE
            /\ messages_class' = "info"
            /\ messages' = result.messages
            /\ saving' = FALSE
    /\ UNCHANGED <<started, settings, loading, navVars, save_ret>>

\* A response arrives: jQuery calls the request's success callback with it.
LoadResponse(result) ==
    /\ BagIn(LoadRequest, inflight)
    /\ inflight' = inflight (-) SetToBag({LoadRequest})
    /\ onDataLoaded(result)

SaveResponse(request, result) ==
    /\ BagIn(request, inflight)
    /\ request.success = "onDataSaved"
    /\ inflight' = inflight (-) SetToBag({request})
    /\ onDataSaved(result)

\* A request fails in transit: no success callback runs (none is given for error).
RequestFailed(request) ==
    /\ BagIn(request, inflight)
    /\ inflight' = inflight (-) SetToBag({request})
    /\ UNCHANGED <<started, fields, defaults, settings, flagVars, messages,
                   messages_class, navVars, save_ret>>

-----------------------------------------------------------------------------
(* The load/save life cycle *)

UserData == { EmptyObject, [ldap_enabled |-> B(TRUE)] }

SwitchedFields == {"ldap_enabled"}

TypedFields == {"ldap_uri"}

TypedTexts == {"", "ldap://host"}

Initialize == \E user_data \in UserData, autoload \in BOOLEAN : init(user_data, autoload)

ToggleSwitch == \E k \in SwitchedFields, state \in BOOLEAN : switchChange(k, state)

TypeText == \E k \in TypedFields, text \in TypedTexts : inputChanged(k, text)

DeliverLoad == \E result \in LoadResults : LoadResponse(result)

DeliverSave ==
    \E request \in BagToSet(inflight) :
        \E result \in SaveResults(request) : SaveResponse(request, result)

DropRequest == \E request \in BagToSet(inflight) : RequestFailed(request)

Next ==
    \/ Initialize
    \/ load
    \/ onSaveClick
    \/ ToggleSwitch
    \/ TypeText
    \/ DeliverLoad
    \/ DeliverSave
    \/ DropRequest

Spec == Init /\ [][Next]_vars

-----------------------------------------------------------------------------
(* Tab navigation *)

lifecycleVars ==
    <<started, fields, defaults, settings, flagVars, messages,
      messages_class, inflight, save_ret>>

\* The path onTabClick builds from a link's data-tab and data-tab-parent.
LinkPath(item) == item.parent \o <<item.id>>

\* self.onTabClick(model, event), the event's target being the link of item
onTabClick(item) ==
    /\ started
    /\ activateTab(LinkPath(item))
    /\ UNCHANGED lifecycleVars

\* self.onHashChange(event): one queued hashchange event is handled
onHashChange ==
    /\ started
    /\ hashEvents > 0
    /\ IF hash # <<>>
       THEN ActivateTabWith(hash, hashEvents - 1)
       ELSE ActivateTabWith(tab_default, hashEvents - 1)
    /\ UNCHANGED lifecycleVars

\* The fragments a user reaches by back/forward or by editing the address.
UserFragments ==
    { <<>>, <<"mail">>, <<"authentication">>, <<"authentication", "ldap">>,
      <<"unknown">> }

\* The user changes the fragment; the browser queues hashchange when it differs.
Navigate(fragment) ==
    /\ started
    /\ fragment # hash
    /\ hashEvents < MaxHashEvents
    /\ hash' = fragment
    /\ hashEvents' = hashEvents + 1
    /\ UNCHANGED <<tab_active, lifecycleVars>>

InitNav == InitAt(InitialHashes)

TabClick == \E i \in 1..Len(Tabs) : onTabClick(Tabs[i])

UserNavigates == \E fragment \in UserFragments : Navigate(fragment)

NextNav ==
    \/ Initialize
    \/ TabClick
    \/ onHashChange
    \/ UserNavigates

SpecNav == InitNav /\ [][NextNav]_vars

-----------------------------------------------------------------------------
(* The validation rules: the editor is started on a record and save() runs
   the validator on it *)

\* The values of an on/off field: the booleans the switch writes.
SwitchStates == {B(TRUE), B(FALSE)}

\* The values of an on/off field of the LDAP rules: the booleans the switch
\* writes, and the number 1 those rules compare with.
LdapSwitchStates == SwitchStates \cup {N("1")}

\* The initial values the editor is handed, for the rules on the on/off
\* fields: every combination of the on/off fields, the text fields empty
\* or holding a string that passes their rules.
SwitchRecords ==
    [local_db_enabled : SwitchStates,
     ldap_enabled : LdapSwitchStates,
     ldap_uri : {S(""), S("ldap://host")},
     ldap_sg_enabled : LdapSwitchStates,
     ldap_admin_group : {S("")},
     autoprovisioning : LdapSwitchStates,
     google_oauth_enabled : SwitchStates,
     google_oauth_auto_configure : SwitchStates,
     google_token_url : {S("")},
     github_oauth_enabled : SwitchStates,
     azure_oauth_enabled : SwitchStates,
     oidc_oauth_enabled : SwitchStates]

\* The initial values the editor is handed, for the rules on the text
\* fields: each text field empty, holding a string that fails the field's
\* own rule or holding one that passes it, under every combination of the
\* on/off fields its rules read.
TextRecords ==
    [local_db_enabled : {B(TRUE)},
     ldap_enabled : LdapSwitchStates,
     ldap_uri : {S(""), S("x"), S("ldap://host")},
     ldap_sg_enabled : LdapSwitchStates,
     ldap_admin_group : {S(""), S("x"), S("admins")},
     autoprovisioning : {B(FALSE)},
     google_oauth_enabled : SwitchStates,
     google_oauth_auto_configure : SwitchStates,
     google_token_url : {S(""), S("x"), S("https://idp.example/token")},
     github_oauth_enabled : {B(FALSE)},
     azure_oauth_enabled : {B(FALSE)},
     oidc_oauth_enabled : {B(FALSE)}]

RuleRecords == SwitchRecords \cup TextRecords

InitializeRules == \E user_data \in RuleRecords : init(user_data, FALSE)

NextRules ==
    \/ InitializeRules
    \/ onSaveClick

SpecRules == Init /\ [][NextRules]_vars

-----------------------------------------------------------------------------
(* Properties of the load/save life cycle *)

\* The example of an invalid form: LDAP enabled and ldap_uri empty.
LdapEnabledWithoutUri ==
    /\ started
    /\ Truthy(fields["ldap_enabled"])
    /\ fields["ldap_uri"] = S("")

\* C1: save() called while the form fails validation (in particular with LDAP
\* enabled and ldap_uri empty) returns false, issues no request and changes
\* no flag, no message and no field value.
C1_RefusedSaveChangesNothing ==
    [][ (started /\ (~FormValid(fields) \/ LdapEnabledWithoutUri) /\ save)
        => /\ save_ret' = "false"
           /\ inflight' = inflight
           /\ UNCHANGED <<fields, flagVars, messages, messages_class>> ]_vars

\* save() has just refused the form with LDAP enabled and no ldap_uri
C1_Witness ==
    /\ LdapEnabledWithoutUri
    /\ ~FormValid(fields)
    /\ save_ret = "false"

\* C2: saved and save_failed are never both true.
C2_SavedAndFailedExclusive == ~(saved /\ save_failed)

\* a save failed after an earlier save had succeeded, with one more outstanding
C2_Witness ==
    /\ save_failed
    /\ ~saved
    /\ defaults["ldap_uri"] = S("ldap://host")
    /\ \E request \in BagToSet(inflight) : request.success = "onDataSaved"

\* The step takes a request out of the outstanding requests.
RequestAnswered == BagCardinality(inflight') < BagCardinality(inflight)

\* C3: a load response with status 0 changes no field value and not the
\* settings tree; it replaces the messages by the server's, sets the error
\* class and clears loading, and nothing else of the model changes.
C3_LoadFailureKeepsRecord ==
    [][ RequestAnswered =>
        \A result \in {r \in LoadResults : r.status = 0} :
          LoadResponse(result)
          => /\ fields' = fields
             /\ settings' = settings
             /\ messages' = result.messages
             /\ messages_class' = "danger"
             /\ loading' = FALSE
             /\ UNCHANGED <<saving, saved, save_failed, navVars>> ]_vars

\* a load has failed after the user typed an ldap_uri, which is still there
C3_Witness ==
    /\ messages_class = "danger"
    /\ messages = ServerMessages(0)
    /\ ~loading /\ ~saving /\ ~saved /\ ~save_failed
    /\ save_ret = "none"
    /\ fields["ldap_uri"] = S("ldap://host")
    /\ settings = EmptyObject

\* C4: no save request is in flight at the same time as a load request.
C4_NoSaveWhileLoadOutstanding ==
    ~( /\ BagIn(LoadRequest, inflight)
       /\ \E request \in BagToSet(inflight) : request.success = "onDataSaved" )

SaveResponseDelivered ==
    \E request \in BagToSet(inflight) :
        \E result \in SaveResults(request) : SaveResponse(request, result)

C6_ValidSaveIssuesOnePost ==
    [][ (started /\ FormValid(fields) /\ save)
        => /\ saving'
           /\ inflight' = inflight (+) SetToBag(
                  {[success |-> "onDataSaved", commit |-> 1, data |-> fields]})
           /\ BagCardinality(inflight') = BagCardinality(inflight) + 1
           /\ fields' = fields ]_vars

\* the POST of the record the user filled in is outstanding
C6_Witness ==
    /\ saving
    /\ save_ret = "undefined"
    /\ fields["ldap_enabled"] = B(TRUE)
    /\ fields["ldap_uri"] = S("ldap://host")
    /\ BagIn([success |-> "onDataSaved", commit |-> 1, data |-> fields], inflight)

\* C7: a save response with status 0 sets save_failed, clears saved and
\* saving, stores the server's messages and changes no field value; with any
\* other status the data is merged into the record, saved is set, and
\* save_failed and saving are cleared.
C7_SaveResponseOutcome ==
    [][ RequestAnswered =>
        \A request \in BagToSet(inflight) : \A result \in SaveResults(request) :
          SaveResponse(request, result)
          => IF result.status = 0
             THEN /\ save_failed' /\ ~saved' /\ ~saving'
                  /\ messages' = result.messages
                  /\ fields' = fields
             ELSE /\ saved' /\ ~save_failed' /\ ~saving'
                  /\ \A k \in DOMAIN result.data : fields'[k] = result.data[k] ]_vars

\* a save has failed and the typed ldap_uri is still in the record
C7_Witness ==
    /\ save_failed /\ ~saved /\ ~saving
    /\ messages = ServerMessages(0)
    /\ fields["ldap_uri"] = S("ldap://host")
    /\ inflight = EmptyBag

\* C8: when the success response to a save carries the record that was
\* submitted, every field afterwards holds the value it had when save() was
\* called (the value serialized into the request).
C8_EchoRestoresSubmittedRecord ==
    [][ RequestAnswered =>
        \A request \in BagToSet(inflight) : \A result \in SaveResults(request) :
          (result.status # 0 /\ result.data = request.data
              /\ SaveResponse(request, result))
          => /\ DOMAIN fields' = DOMAIN request.data
             /\ \A k \in DOMAIN request.data : fields'[k] = request.data[k] ]_vars

\* the echo of a record holding the typed ldap_uri has been processed
C8_Witness ==
    /\ saved /\ ~saving
    /\ fields["ldap_uri"] = S("ldap://host")
    /\ defaults = fields

\* The records update() is called with in a step, and the steps that call it.
UpdateInstances ==
    UserData \cup Payloads \cup {request.data : request \in BagToSet(inflight)}

UpdateCalledWith(instance) ==
    \/ \E autoload \in BOOLEAN : init(instance, autoload)
    \/ \E result \in LoadResults :
          result.status # 0 /\ result.legacy = instance /\ LoadResponse(result)
    \/ \E request \in BagToSet(inflight) : \E result \in SaveResults(request) :
          /\ result.status # 0 /\ result.data = instance
          /\ SaveResponse(request, result)

\* C9: update(partialValues) leaves every key of partialValues at the
\* supplied value and every other default key at its static default, and
\* leaves the defaults table unchanged.
C9_UpdateMergesStaticDefaults ==
    [][ \A instance \in UpdateInstances :
          UpdateCalledWith(instance)
          => /\ \A k \in DOMAIN instance : fields'[k] = instance[k]
             /\ \A k \in FieldNames \ DOMAIN instance : fields'[k] = StaticDefaults[k]
             /\ defaults' = defaults ]_vars

\* The record a success response carries: it replaces the fields it names.
Applied(payload) ==
    /\ \A k \in DOMAIN payload : fields'[k] = payload[k]
    /\ DOMAIN payload = DOMAIN fields => fields' = payload

Outstanding(callback) == \E request \in BagToSet(inflight) : request.success = callback

\* C18: the progress flags track the outstanding requests: saving is true
\* exactly when a save request is outstanding and loading is true exactly
\* when a load request is outstanding, also when two of a kind overlap.
C18_FlagsTrackOutstandingRequests ==
    /\ saving <=> Outstanding("onDataSaved")
    /\ loading <=> Outstanding("onDataLoaded")

-----------------------------------------------------------------------------
(* Properties of the tab navigation *)

\* The children of the parent tab named by path that are marked default.
DefaultChildren(path) ==
    {i \in 1..Len(Tabs) : Tabs[i].parent = path /\ Tabs[i].def}

\* The path the navigation is to end at for path: a bare parent with a default
\* child gets that child's id appended, any other path stays as it is.
ExpectedPath(path) ==
    IF Len(path) = 1 /\ DefaultChildren(path) # {}
    THEN path \o <<Tabs[CHOOSE i \in DefaultChildren(path) : TRUE].id>>
    ELSE path

\* The steps in which activateTab(path) is called.
ActivateTabCalledWith(path) ==
    \/ \E i \in 1..Len(Tabs) : LinkPath(Tabs[i]) = path /\ onTabClick(Tabs[i])
    \/ onHashChange /\ path = (IF hash # <<>> THEN hash ELSE tab_default)
    \/ /\ path = (IF hasHash THEN getHash ELSE tab_default)
       /\ \E user_data \in UserData, autoload \in BOOLEAN : init(user_data, autoload)

NavPaths == {LinkPath(Tabs[i]) : i \in 1..Len(Tabs)} \cup {hash, tab_default}

\* C10: activateTab(path) makes the active path path + '/' + the default
\* child's id when path has no '/' and names a parent with a default child
\* ('authentication' gives 'authentication/local'), and path itself
\* otherwise; the same path is written to the location fragment.
C10_ActivateTabResolvesDefaultChild ==
    [][ /\ \A path \in NavPaths :
              ActivateTabCalledWith(path)
              => tab_active' = ExpectedPath(path) /\ hash' = ExpectedPath(path)
        /\ ActivateTabCalledWith(<<"authentication">>)
              => tab_active' = <<"authentication", "local">>
        /\ ActivateTabCalledWith(<<"authentication", "ldap">>)
              => tab_active' = <<"authentication", "ldap">> ]_vars

\* the parent tab was activated and resolved to its default child
C10_Witness ==
    /\ started
    /\ tab_active = <<"authentication", "local">>
    /\ hash = <<"authentication", "local">>

\* C11: navigation round-trips are idempotent: whenever activateTab(p) is
\* called with p the path that is already active (an active path reached
\* through activateTab, activateDefaultTab, startup or a fragment change), the
\* active path and the location fragment are both p afterwards.
C11_ReactivationIsIdempotent ==
    [][ started =>
          \A path \in NavPaths :
              path = tab_active /\ ActivateTabCalledWith(path)
              => tab_active' = path /\ hash' = path ]_vars

\* the active path 'unknown' was activated again by a fragment change back to
\* it, with one more fragment-change event still to be handled
C11_Witness ==
    /\ started
    /\ tab_active = <<"unknown">>
    /\ hash = <<"unknown">>
    /\ hashEvents = 1

\* C12 as stated: handling a fragment-change event fires no further
\* fragment-change event: the handled event leaves the queue and nothing
\* enters it.
C12_HandlingFiresNoFurtherEvent ==
    [][ onHashChange => hashEvents' = hashEvents - 1 ]_vars

\* C12 amended: handling a fragment-change event fires a further event exactly
\* when the path it activates differs from the fragment it handles, which
\* happens only for the empty fragment and for a bare parent with a default
\* child; the fragment then equals the active path, and handling an event in
\* such a state fires nothing further, so the handling does not loop.
C12_HandlingFiresAtMostOneFurtherEvent ==
    [][ onHashChange =>
          /\ hashEvents' = (IF hash' # hash THEN hashEvents ELSE hashEvents - 1)
          /\ hash' # hash =>
                \/ hash = <<>>
                \/ Len(hash) = 1 /\ DefaultChildren(hash) # {}
          /\ hash' = tab_active'
          /\ hash = tab_active => hash' = hash /\ hashEvents' = hashEvents - 1 ]_vars

\* the fragment 'authentication' was handled while another event was waiting:
\* the handling wrote 'authentication/local' and so queued a further event
C12_Witness ==
    /\ started
    /\ tab_active = <<"authentication", "local">>
    /\ hash = <<"authentication", "local">>
    /\ hashEvents = 2

\* C16: init() activates the initial fragment when it is not empty and the
\* default tab otherwise ('authentication', which resolves to
\* 'authentication/local'); and after init(), after a tab click and after
\* the handling of a fragment change -- the steps that complete activateTab
\* or activateDefaultTab -- the active path equals the location fragment.
C16_ActivePathEqualsFragment ==
    [][ /\ ~started /\ started'
            => tab_active' = (IF hash # <<>> THEN ExpectedPath(hash)
                              ELSE <<"authentication", "local">>)
        /\ (Initialize \/ TabClick \/ onHashChange) => tab_active' = hash' ]_vars

\* the page was opened on 'authentication/ldap' and init() activated it
C16_Witness ==
    /\ started
    /\ tab_active = <<"authentication", "ldap">>
    /\ hash = <<"authentication", "ldap">>
    /\ hashEvents = 0

-----------------------------------------------------------------------------
(* Properties of the validation rules *)

NoProviderEnabled == \A t \in AuthToggles : ~Truthy(fields[t])

\* C13: the auth_enabled rule is attached to each of the six provider
\* toggles: whatever the six values, each of the six fields is in error
\* exactly when none of the six is truthy; and with all six false, save()
\* returns false, sets no flag and sends no request.
C13_AuthEnabledOnSixToggles ==
    [][ onSaveClick =>
          /\ \A k \in AuthToggles : FieldInvalid(fields, k) <=> NoProviderEnabled
          /\ (\A t \in AuthToggles : fields[t] = B(FALSE))
                => save_ret' = "false" /\ inflight' = inflight /\ saving' = saving
          /\ NoProviderEnabled <=> ~auth_enabled(fields) ]_vars

\* save() was refused on a record whose only fields in error are the six
\* provider toggles, all of them false
C13_Witness ==
    /\ started
    /\ save_ret = "false"
    /\ \A t \in AuthToggles : fields[t] = B(FALSE)
    /\ \A k \in FieldNames : FieldInvalid(fields, k) <=> k \in AuthToggles

\* C14: the ldap_exclusive rule on ldap_sg_enabled and autoprovisioning is
\* violated, with both fields in error, whenever both flags are truthy
\* (the boolean true included), and is satisfied when at most one is truthy.
C14_LdapExclusiveOnTruthy ==
    started =>
        IF Truthy(fields["ldap_sg_enabled"]) /\ Truthy(fields["autoprovisioning"])
        THEN /\ ~ldap_exclusive(fields)
             /\ FieldInvalid(fields, "ldap_sg_enabled")
             /\ FieldInvalid(fields, "autoprovisioning")
        ELSE ldap_exclusive(fields)

\* The text fields whose 'required' rule is gated by an enablement predicate.
GatedFields == {"ldap_uri", "ldap_admin_group", "google_token_url"}

\* The enablement a gated field is required under: LDAP enabled, LDAP group
\* security enabled, Google enabled with auto-configuration off.
Gate(flds, k) ==
    CASE k = "ldap_uri" -> Truthy(flds["ldap_enabled"])
      [] k = "ldap_admin_group" ->
            Truthy(flds["ldap_enabled"]) /\ Truthy(flds["ldap_sg_enabled"])
      [] k = "google_token_url" ->
            /\ Truthy(flds["google_oauth_enabled"])
            /\ ~Truthy(flds["google_oauth_auto_configure"])

IsEmpty(flds, k) == ToStr(flds[k]) = ""

\* The field holds a string that its own length or format rule rejects.
OwnRuleFails(flds, k) ==
    LET text == ToStr(flds[k])
    IN  /\ text # ""
        /\ CASE k = "ldap_uri" -> Len(text) < 11 \/ Len(text) > 255
              [] k = "ldap_admin_group" -> Len(text) < 3 \/ Len(text) > 100
              [] k = "google_token_url" ->
                    Len(text) > 255 \/ text # "https://idp.example/token"

====
